---- MODULE Spec2Model ----
(***************************************************************************)
(* Model of the POST handler of src/app/api/optimize-model/route.ts: one   *)
(* request walking through formData, staging, Draco initialisation,        *)
(* io.read, the six-stage transform pipeline, the "minimal" fallback and   *)
(* the final io.write / JSON response.                                     *)
(*                                                                         *)
(* Library calls (document.transform, compressTexture, io.read, io.write)  *)
(* either return or throw; which one happens is the environment's choice.  *)
(* The handler takes no snapshot of the document, so a document-level      *)
(* transform that throws may or may not have left edits behind: both       *)
(* outcomes are modelled (the `partial` field of a document).              *)
(***************************************************************************)
EXTENDS Naturals, Sequences, FiniteSets

VARIABLES
    pc,                 \* position of the handler
    file,               \* formData.get("file") is present
    input,              \* content of the staged input file (what io.read decodes)
    useDraco,           \* decoder && encoder
    document,           \* the document read at line 135
    document2,          \* the document re-read by the fallback at line 280
    texIdx,             \* position of the for..of loop over textures
    optimizationLevel,  \* the tag declared at line 138
    outFile,            \* what outputPath holds
    tempFiles,          \* stage labels checkFileSize was called with
    response,           \* the NextResponse returned
    running,            \* transforms invoked and not yet settled
    snap,               \* the document as it was when the current stage began
    history             \* every transform invocation and how it settled

\* Concurrent requests around initializeDraco (SpecDraco).
VARIABLES
    decoderModule,      \* line 35: the request that created it, 0 for null
    encoderModule,      \* line 36: the request that created it, 0 for null
    dracoInitialized,   \* line 37
    hpc,                \* position of each request's handler
    initResult,         \* what initializeDraco returned to each request
    accesses,           \* every read and write of a program variable
    lateWrites          \* writes of the two modules made while dracoInitialized

\* Concurrent requests and downloads around the temporary directory
\* (SpecFiles).
VARIABLES
    fpc,                \* position of each request's handler
    fileId,             \* line 76, 0 before uuidv4() is called
    fileName,           \* line 77, file.name as a sequence of path segments
    issued,             \* the values uuidv4() has returned
    disclosed,          \* the fileIds sent to clients in optimizedModelUrl
    files,              \* the temporary directory: path -> what it holds
    fileReads,          \* every read of a file by a request
    served,             \* every body GET /api/download has streamed
    checks              \* calls of checkFileSize made by each request

\* The single-transform handler of unnamed/part_001 (SpecCleanup).
VARIABLES
    cpc,                \* position of the handler
    now,                \* Date.now() at line 50
    uploadName,         \* file.name
    tempFilePath,       \* line 22, <<>> while undefined
    written,            \* fs.writeFile of line 55 has completed
    onDisk,             \* the temporary file exists
    unlinks,            \* calls of fs.unlink(tempFilePath), and how each ended
    transformed,        \* transforms of line 68 that have run
    cresponse           \* status of the response, 0 before it

requestVars == <<pc, file, input, useDraco, document, document2, texIdx,
                 optimizationLevel, outFile, tempFiles, response, running,
                 snap, history>>

dracoVars == <<decoderModule, encoderModule, dracoInitialized, hpc,
               initResult, accesses, lateWrites>>

fileVars == <<fpc, fileId, fileName, issued, disclosed, files, fileReads,
              served, checks>>

cleanupVars == <<cpc, now, uploadName, tempFilePath, written, onDisk,
                 unlinks, transformed, cresponse>>

vars == <<requestVars, dracoVars, fileVars, cleanupVars>>

\* Bounds of the model: animations and textures of the uploaded asset.
MaxAnimations == 1
MaxTextures == 2

\* Bound of the concurrent models: requests in flight.
NumRequests == 2

\* Bound of the single-transform handler's clock: values of Date.now().
MaxNow == 2

Requests == 1..NumRequests

\* The transforms the handler invokes, in the order of the source.
Transforms == {"dedup", "prune", "resample", "weld", "quantize", "draco",
               "draco-simple"}

\* Position of each stage in the pipeline (stage 5 is weld or quantize,
\* stage 6 is draco or its retry).
StageOrder(s) ==
    CASE s = "dedup" -> 1
      [] s = "prune" -> 2
      [] s = "resample" -> 3
      [] s = "texture" -> 4
      [] s = "compressTexture" -> 4
      [] s = "weld" -> 5
      [] s = "quantize" -> 5
      [] s = "draco" -> 6
      [] s = "draco-simple" -> 6

NoDoc == [loaded |-> FALSE, anims |-> 0, tex |-> <<>>, applied |-> {},
          partial |-> {}]

\* io.read of the staged file: a fresh, untouched document.
Decode(in) == [loaded |-> TRUE, anims |-> in.anims,
               tex |-> [i \in 1..in.textures |-> "orig"],
               applied |-> {}, partial |-> {}]

NoResponse == [status |-> 0, fields |-> {}, optimizationLevel |-> "none",
               dracoEnabled |-> FALSE,
               applied |-> [dedup |-> FALSE, prune |-> FALSE,
                            resample |-> FALSE, simplify |-> FALSE,
                            draco |-> FALSE]]

Event(s, on, ev, i) == [stage |-> s, on |-> on, ev |-> ev, idx |-> i]

\* lines 35-37: the module-level state of the route, before any request.
InitDraco ==
    /\ decoderModule = 0
    /\ encoderModule = 0
    /\ dracoInitialized = FALSE
    /\ hpc = [r \in Requests |-> "start"]
    /\ initResult = [r \in Requests |-> [decoder |-> 0, encoder |-> 0]]
    /\ accesses = {}
    /\ lateWrites = {}

\* The temporary directory before any request.
InitFiles ==
    /\ fpc = [r \in Requests |-> "start"]
    /\ fileId = [r \in Requests |-> 0]
    /\ fileName = [r \in Requests |-> <<>>]
    /\ issued = {}
    /\ disclosed = {}
    /\ files = {}
    /\ fileReads = {}
    /\ served = {}
    /\ checks = [r \in Requests |-> 0]

\* unnamed/part_001 lines 22-23: the handler's variables on entry.
InitCleanup ==
    /\ cpc = "createIO"
    /\ now = 0
    /\ uploadName = ""
    /\ tempFilePath = <<>>
    /\ written = FALSE
    /\ onDisk = FALSE
    /\ unlinks = <<>>
    /\ transformed = <<>>
    /\ cresponse = 0

Init ==
    /\ pc = "formData"
    /\ file = FALSE
    /\ input = [anims |-> 0, textures |-> 0]
    /\ useDraco = FALSE
    /\ document = NoDoc
    /\ document2 = NoDoc
    /\ texIdx = 0
    /\ optimizationLevel = "none"
    /\ outFile = NoDoc
    /\ tempFiles = {}
    /\ response = NoResponse
    /\ running = {}
    /\ snap = NoDoc
    /\ history = <<>>
    /\ InitDraco
    /\ InitFiles
    /\ InitCleanup

\* document.transform(t) returned: the document carries t's edits.
Applied(doc, t) == [doc EXCEPT !.applied = @ \cup {t}]

\* document.transform(t) threw: nothing restores the document, so it is
\* either untouched or holds some of t's edits.
Thrown(doc, t) == {doc, [doc EXCEPT !.partial = @ \cup {t}]}

\* A transform is invoked on a document (the call is awaited, so the
\* handler does nothing else until it settles).
Begin(s, on, i) ==
    /\ running' = running \cup {s}
    /\ history' = Append(history, Event(s, on, "start", i))

\* The awaited call returned ("ok") or threw ("fail").
Settle(s, on, ev, i) ==
    /\ running' = running \ {s}
    /\ history' = Append(history, Event(s, on, ev, i))

\* lines 327-343: the applied map, derived from the tag.
AppliedMap(level) ==
    [dedup    |-> level # "none",
     prune    |-> level \in {"intermediate", "advanced", "draco",
                             "draco-simple", "minimal", "welded",
                             "pre-quantized"},
     resample |-> level \in {"advanced", "draco", "draco-simple"},
     simplify |-> level \in {"welded", "pre-quantized"},
     draco    |-> level \in {"draco", "draco-simple"}]

\* lines 316-350: the full report.
Report(level) ==
    [status |-> 200,
     fields |-> {"message", "optimizedModelUrl", "dracoEnabled",
                 "optimizationLevel", "fileSize", "applied", "note"},
     optimizationLevel |-> level,
     dracoEnabled |-> level \in {"draco", "draco-simple"},
     applied |-> AppliedMap(level)]

\* lines 286-292: the response of the fallback.
MinimalResponse(level) ==
    [NoResponse EXCEPT !.status = 200,
                       !.fields = {"message", "optimizedPath", "dracoEnabled",
                                   "optimizationLevel", "note"},
                       !.optimizationLevel = level]

\* lines 357-363 (status 500) and line 70 (status 400).
ErrorResponse(code) ==
    [NoResponse EXCEPT !.status = code,
                       !.fields = IF code = 400 THEN {"error"}
                                  ELSE {"error", "details"}]

\* lines 273-275: a throw that no inner try catches reaches the catch of the
\* pipeline's try, which tags the request and starts the fallback.
TransformError ==
    /\ optimizationLevel' = "error"
    /\ pc' = "fb_read"

----------------------------------------------------------------------------
\* Request intake: lines 66-135.

\* FormData with the `return` of line 70 dropped: the 400 is built and the
\* handler goes on to stage the upload.
FormData_NoReturn ==
    /\ pc = "formData"
    /\ \E f \in BOOLEAN :
        /\ file' = f
        /\ pc' = "writeInput"
        /\ response' = IF f THEN response ELSE ErrorResponse(400)
    /\ UNCHANGED <<input, useDraco, document, document2, texIdx,
                   optimizationLevel, outFile, tempFiles, running, snap,
                   history>>
    /\ UNCHANGED <<dracoVars, fileVars, cleanupVars>>

\* line 66-71: the form holds a file or not.
FormData ==
    /\ pc = "formData"
    /\ \E f \in BOOLEAN :
        /\ file' = f
        /\ IF f THEN /\ pc' = "writeInput"
                     /\ UNCHANGED response
                ELSE /\ pc' = "done"
                     /\ response' = ErrorResponse(400)
    /\ UNCHANGED <<input, useDraco, document, document2, texIdx,
                   optimizationLevel, outFile, tempFiles, running, snap,
                   history>>
    /\ UNCHANGED <<dracoVars, fileVars, cleanupVars>>

\* lines 73-86: the upload is staged in the temporary directory.
WriteInput ==
    /\ pc = "writeInput"
    /\ \E a \in 0..MaxAnimations, t \in 0..MaxTextures :
        input' = [anims |-> a, textures |-> t]
    /\ pc' = "initDraco"
    /\ UNCHANGED <<file, useDraco, document, document2, texIdx,
                   optimizationLevel, outFile, tempFiles, response, running,
                   snap, history>>
    /\ UNCHANGED <<dracoVars, fileVars, cleanupVars>>

\* lines 82-86 throwing (writeFile or stat): the outer catch answers 500.
WriteInputFail ==
    /\ pc = "writeInput"
    /\ pc' = "done"
    /\ response' = ErrorResponse(500)
    /\ UNCHANGED <<file, input, useDraco, document, document2, texIdx,
                   optimizationLevel, outFile, tempFiles, running, snap,
                   history>>
    /\ UNCHANGED <<dracoVars, fileVars, cleanupVars>>

\* lines 113-115: initializeDraco yields both modules or two nulls.
InitializeDraco ==
    /\ pc = "initDraco"
    /\ useDraco' \in BOOLEAN
    /\ pc' = "read"
    /\ UNCHANGED <<file, input, document, document2, texIdx,
                   optimizationLevel, outFile, tempFiles, response, running,
                   snap, history>>
    /\ UNCHANGED <<dracoVars, fileVars, cleanupVars>>

\* lines 135-138: io.read returned.
ReadOk ==
    /\ pc = "read"
    /\ document' = Decode(input)
    /\ optimizationLevel' = "none"
    /\ pc' = "dedup"
    /\ history' = Append(history, Event("io.read", "document", "ok", 0))
    /\ UNCHANGED <<file, input, useDraco, document2, texIdx, outFile,
                   tempFiles, response, running, snap>>
    /\ UNCHANGED <<dracoVars, fileVars, cleanupVars>>

\* ReadFail as it would be with line 135 inside the pipeline's try: the
\* catch of lines 273-296 starts the fallback.
ReadFail_InsideTry ==
    /\ pc = "read"
    /\ TransformError
    /\ history' = Append(history, Event("io.read", "document", "fail", 0))
    /\ UNCHANGED <<file, input, useDraco, document, document2, texIdx,
                   outFile, tempFiles, response, running, snap>>
    /\ UNCHANGED <<dracoVars, fileVars, cleanupVars>>

\* line 135 throwing: control leaves the outer try, lines 351-364.
ReadFail ==
    /\ pc = "read"
    /\ pc' = "done"
    /\ response' = ErrorResponse(500)
    /\ history' = Append(history, Event("io.read", "document", "fail", 0))
    /\ UNCHANGED <<file, input, useDraco, document, document2, texIdx,
                   optimizationLevel, outFile, tempFiles, running, snap>>
    /\ UNCHANGED <<dracoVars, fileVars, cleanupVars>>

----------------------------------------------------------------------------
\* The pipeline on `document`: lines 140-272.

\* line 142: await document.transform(dedup()).
DedupStart ==
    /\ pc = "dedup"
    /\ Begin("dedup", "document", 0)
    /\ snap' = document
    /\ pc' = "dedup_run"
    /\ UNCHANGED <<file, input, useDraco, document, document2, texIdx,
                   optimizationLevel, outFile, tempFiles, response>>
    /\ UNCHANGED <<dracoVars, fileVars, cleanupVars>>

\* lines 142-145.
DedupOk ==
    /\ pc = "dedup_run"
    /\ Settle("dedup", "document", "ok", 0)
    /\ document' = Applied(document, "dedup")
    /\ optimizationLevel' = "basic"
    /\ tempFiles' = tempFiles \cup {"Dedup"}
    /\ pc' = "prune"
    /\ UNCHANGED <<file, input, useDraco, document2, texIdx, outFile,
                   response, snap>>
    /\ UNCHANGED <<dracoVars, fileVars, cleanupVars>>

\* line 142 throwing: not inside any inner try.
DedupFail ==
    /\ pc = "dedup_run"
    /\ Settle("dedup", "document", "fail", 0)
    /\ document' \in Thrown(document, "dedup")
    /\ TransformError
    /\ UNCHANGED <<file, input, useDraco, document2, texIdx, outFile,
                   tempFiles, response, snap>>
    /\ UNCHANGED <<dracoVars, fileVars, cleanupVars>>

\* PruneStart as it would be without the await of line 142: prune is
\* invoked while dedup is still in flight.
PruneStart_NoAwait ==
    /\ pc = "dedup_run"
    /\ Begin("prune", "document", 0)
    /\ snap' = document
    /\ pc' = "prune_run"
    /\ UNCHANGED <<file, input, useDraco, document, document2, texIdx,
                   optimizationLevel, outFile, tempFiles, response>>
    /\ UNCHANGED <<dracoVars, fileVars, cleanupVars>>

\* line 148: await document.transform(prune()).
PruneStart ==
    /\ pc = "prune"
    /\ Begin("prune", "document", 0)
    /\ snap' = document
    /\ pc' = "prune_run"
    /\ UNCHANGED <<file, input, useDraco, document, document2, texIdx,
                   optimizationLevel, outFile, tempFiles, response>>
    /\ UNCHANGED <<dracoVars, fileVars, cleanupVars>>

\* lines 148-151.
PruneOk ==
    /\ pc = "prune_run"
    /\ Settle("prune", "document", "ok", 0)
    /\ document' = Applied(document, "prune")
    /\ optimizationLevel' = "intermediate"
    /\ tempFiles' = tempFiles \cup {"Prune"}
    /\ pc' = "resample"
    /\ UNCHANGED <<file, input, useDraco, document2, texIdx, outFile,
                   response, snap>>
    /\ UNCHANGED <<dracoVars, fileVars, cleanupVars>>

\* line 148 throwing: not inside any inner try.
PruneFail ==
    /\ pc = "prune_run"
    /\ Settle("prune", "document", "fail", 0)
    /\ document' \in Thrown(document, "prune")
    /\ TransformError
    /\ UNCHANGED <<file, input, useDraco, document2, texIdx, outFile,
                   tempFiles, response, snap>>
    /\ UNCHANGED <<dracoVars, fileVars, cleanupVars>>

\* line 154, no animation: the stage is passed over.
ResampleSkip ==
    /\ pc = "resample"
    /\ document.anims = 0
    /\ pc' = "texture"
    /\ UNCHANGED <<file, input, useDraco, document, document2, texIdx,
                   optimizationLevel, outFile, tempFiles, response, running,
                   snap, history>>
    /\ UNCHANGED <<dracoVars, fileVars, cleanupVars>>

\* ResampleStart without the test of line 154.
ResampleStart_NoGuard ==
    /\ pc = "resample"
    /\ Begin("resample", "document", 0)
    /\ snap' = document
    /\ pc' = "resample_run"
    /\ UNCHANGED <<file, input, useDraco, document, document2, texIdx,
                   optimizationLevel, outFile, tempFiles, response>>
    /\ UNCHANGED <<dracoVars, fileVars, cleanupVars>>

\* lines 154-156: await document.transform(resample()).
ResampleStart ==
    /\ pc = "resample"
    /\ document.anims > 0
    /\ Begin("resample", "document", 0)
    /\ snap' = document
    /\ pc' = "resample_run"
    /\ UNCHANGED <<file, input, useDraco, document, document2, texIdx,
                   optimizationLevel, outFile, tempFiles, response>>
    /\ UNCHANGED <<dracoVars, fileVars, cleanupVars>>

\* lines 156-159.
ResampleOk ==
    /\ pc = "resample_run"
    /\ Settle("resample", "document", "ok", 0)
    /\ document' = Applied(document, "resample")
    /\ optimizationLevel' = "advanced"
    /\ tempFiles' = tempFiles \cup {"Resample"}
    /\ pc' = "texture"
    /\ UNCHANGED <<file, input, useDraco, document2, texIdx, outFile,
                   response, snap>>
    /\ UNCHANGED <<dracoVars, fileVars, cleanupVars>>

\* ResampleFail with the try of lines 155-162 taken away: the throw reaches
\* the catch of the pipeline's try.
ResampleFail_Uncaught ==
    /\ pc = "resample_run"
    /\ Settle("resample", "document", "fail", 0)
    /\ document' \in Thrown(document, "resample")
    /\ TransformError
    /\ UNCHANGED <<file, input, useDraco, document2, texIdx, outFile,
                   tempFiles, response, snap>>
    /\ UNCHANGED <<dracoVars, fileVars, cleanupVars>>

\* lines 160-162: the throw is caught and logged.
ResampleFail ==
    /\ pc = "resample_run"
    /\ Settle("resample", "document", "fail", 0)
    /\ document' \in Thrown(document, "resample")
    /\ pc' = "texture"
    /\ UNCHANGED <<file, input, useDraco, document2, texIdx,
                   optimizationLevel, outFile, tempFiles, response, snap>>
    /\ UNCHANGED <<dracoVars, fileVars, cleanupVars>>

\* lines 166 and 185-187, no texture: the stage is passed over.
TextureSkip ==
    /\ pc = "texture"
    /\ Len(document.tex) = 0
    /\ pc' = "weld"
    /\ UNCHANGED <<file, input, useDraco, document, document2, texIdx,
                   optimizationLevel, outFile, tempFiles, response, running,
                   snap, history>>
    /\ UNCHANGED <<dracoVars, fileVars, cleanupVars>>

\* lines 166-171: the texture list is taken and the loop entered.
TextureEnter ==
    /\ pc = "texture"
    /\ Len(document.tex) > 0
    /\ texIdx' = 1
    /\ snap' = document
    /\ history' = Append(history, Event("texture", "document", "start", 0))
    /\ pc' = "tex_loop"
    /\ UNCHANGED <<file, input, useDraco, document, document2,
                   optimizationLevel, outFile, tempFiles, response, running>>
    /\ UNCHANGED <<dracoVars, fileVars, cleanupVars>>

\* line 172: await compressTexture(texture, ...) for the next texture.
CompressTextureStart ==
    /\ pc = "tex_loop"
    /\ texIdx <= Len(document.tex)
    /\ Begin("compressTexture", "document", texIdx)
    /\ pc' = "tex_run"
    /\ UNCHANGED <<file, input, useDraco, document, document2, texIdx,
                   optimizationLevel, outFile, tempFiles, response, snap>>
    /\ UNCHANGED <<dracoVars, fileVars, cleanupVars>>

\* lines 171-177: the texture's image is replaced; the loop moves on.
CompressTextureOk ==
    /\ pc = "tex_run"
    /\ Settle("compressTexture", "document", "ok", texIdx)
    /\ document' = [document EXCEPT !.tex[texIdx] = "webp"]
    /\ texIdx' = texIdx + 1
    /\ pc' = "tex_loop"
    /\ UNCHANGED <<file, input, useDraco, document2, optimizationLevel,
                   outFile, tempFiles, response, snap>>
    /\ UNCHANGED <<dracoVars, fileVars, cleanupVars>>

\* lines 172 and 182-184: compressTexture threw (it replaces the image as
\* its last step, so the texture keeps its bytes); the throw leaves the
\* loop and is caught by the one try around it.
CompressTextureFail ==
    /\ pc = "tex_run"
    /\ running' = running \ {"compressTexture"}
    /\ history' = history \o
           <<Event("compressTexture", "document", "fail", texIdx),
             Event("texture", "document", "fail", 0)>>
    /\ pc' = "weld"
    /\ UNCHANGED <<file, input, useDraco, document, document2, texIdx,
                   optimizationLevel, outFile, tempFiles, response, snap>>
    /\ UNCHANGED <<dracoVars, fileVars, cleanupVars>>

\* lines 177-181: the loop ran off the end of the list.
TextureDone ==
    /\ pc = "tex_loop"
    /\ texIdx > Len(document.tex)
    /\ optimizationLevel' = "texture-compressed"
    /\ history' = Append(history, Event("texture", "document", "ok", 0))
    /\ tempFiles' = tempFiles \cup {"TextureCompress"}
    /\ pc' = "weld"
    /\ UNCHANGED <<file, input, useDraco, document, document2, texIdx,
                   outFile, response, running, snap>>
    /\ UNCHANGED <<dracoVars, fileVars, cleanupVars>>

\* lines 190-200: await document.transform(weld({tolerance: 0.0001})).
WeldStart ==
    /\ pc = "weld"
    /\ Begin("weld", "document", 0)
    /\ snap' = document
    /\ pc' = "weld_run"
    /\ UNCHANGED <<file, input, useDraco, document, document2, texIdx,
                   optimizationLevel, outFile, tempFiles, response>>
    /\ UNCHANGED <<dracoVars, fileVars, cleanupVars>>

\* WeldOk as it would be if quantization followed weld unconditionally
\* instead of sitting in weld's catch block.
WeldOk_ThenQuantize ==
    /\ pc = "weld_run"
    /\ Settle("weld", "document", "ok", 0)
    /\ document' = Applied(document, "weld")
    /\ optimizationLevel' = "welded"
    /\ tempFiles' = tempFiles \cup {"Weld"}
    /\ pc' = "quantize"
    /\ UNCHANGED <<file, input, useDraco, document2, texIdx, outFile,
                   response, snap>>
    /\ UNCHANGED <<dracoVars, fileVars, cleanupVars>>

\* lines 200-203.
WeldOk ==
    /\ pc = "weld_run"
    /\ Settle("weld", "document", "ok", 0)
    /\ document' = Applied(document, "weld")
    /\ optimizationLevel' = "welded"
    /\ tempFiles' = tempFiles \cup {"Weld"}
    /\ pc' = "draco"
    /\ UNCHANGED <<file, input, useDraco, document2, texIdx, outFile,
                   response, snap>>
    /\ UNCHANGED <<dracoVars, fileVars, cleanupVars>>

\* lines 204-205: the import or the transform threw; quantization is next.
WeldFail ==
    /\ pc = "weld_run"
    /\ Settle("weld", "document", "fail", 0)
    /\ document' \in Thrown(document, "weld")
    /\ pc' = "quantize"
    /\ UNCHANGED <<file, input, useDraco, document2, texIdx,
                   optimizationLevel, outFile, tempFiles, response, snap>>
    /\ UNCHANGED <<dracoVars, fileVars, cleanupVars>>

\* lines 208-216: await document.transform(draco({quantizePosition: 12,
\* quantizeNormal: 10, quantizeTexcoord: 10})); useDraco is not consulted.
QuantizeStart ==
    /\ pc = "quantize"
    /\ Begin("quantize", "document", 0)
    /\ pc' = "quantize_run"
    /\ UNCHANGED <<file, input, useDraco, document, document2, texIdx,
                   optimizationLevel, outFile, tempFiles, response, snap>>
    /\ UNCHANGED <<dracoVars, fileVars, cleanupVars>>

\* lines 216-219.
QuantizeOk ==
    /\ pc = "quantize_run"
    /\ Settle("quantize", "document", "ok", 0)
    /\ document' = Applied(document, "quantize")
    /\ optimizationLevel' = "pre-quantized"
    /\ tempFiles' = tempFiles \cup {"Pre-quantization"}
    /\ pc' = "draco"
    /\ UNCHANGED <<file, input, useDraco, document2, texIdx, outFile,
                   response, snap>>
    /\ UNCHANGED <<dracoVars, fileVars, cleanupVars>>

\* lines 220-227: the throw is caught and logged.
QuantizeFail ==
    /\ pc = "quantize_run"
    /\ Settle("quantize", "document", "fail", 0)
    /\ document' \in Thrown(document, "quantize")
    /\ pc' = "draco"
    /\ UNCHANGED <<file, input, useDraco, document2, texIdx,
                   optimizationLevel, outFile, tempFiles, response, snap>>
    /\ UNCHANGED <<dracoVars, fileVars, cleanupVars>>

\* lines 239 and 269-272: no Draco modules.
DracoSkip ==
    /\ pc = "draco"
    /\ ~useDraco
    /\ pc' = "write"
    /\ UNCHANGED <<file, input, useDraco, document, document2, texIdx,
                   optimizationLevel, outFile, tempFiles, response, running,
                   snap, history>>
    /\ UNCHANGED <<dracoVars, fileVars, cleanupVars>>

\* lines 239-250: await document.transform(draco()).
DracoStart ==
    /\ pc = "draco"
    /\ useDraco
    /\ Begin("draco", "document", 0)
    /\ snap' = document
    /\ pc' = "draco_run"
    /\ UNCHANGED <<file, input, useDraco, document, document2, texIdx,
                   optimizationLevel, outFile, tempFiles, response>>
    /\ UNCHANGED <<dracoVars, fileVars, cleanupVars>>

\* lines 250-254.
DracoOk ==
    /\ pc = "draco_run"
    /\ Settle("draco", "document", "ok", 0)
    /\ document' = Applied(document, "draco")
    /\ optimizationLevel' = "draco"
    /\ tempFiles' = tempFiles \cup {"Draco"}
    /\ pc' = "write"
    /\ UNCHANGED <<file, input, useDraco, document2, texIdx, outFile,
                   response, snap>>
    /\ UNCHANGED <<dracoVars, fileVars, cleanupVars>>

\* DracoFail without the retry of lines 258-267: the throw is only logged.
DracoFail_NoRetry ==
    /\ pc = "draco_run"
    /\ Settle("draco", "document", "fail", 0)
    /\ document' \in Thrown(document, "draco")
    /\ pc' = "write"
    /\ UNCHANGED <<file, input, useDraco, document2, texIdx,
                   optimizationLevel, outFile, tempFiles, response, snap>>
    /\ UNCHANGED <<dracoVars, fileVars, cleanupVars>>

\* lines 255-256: the throw is caught; the retry is next.
DracoFail ==
    /\ pc = "draco_run"
    /\ Settle("draco", "document", "fail", 0)
    /\ document' \in Thrown(document, "draco")
    /\ pc' = "draco2"
    /\ UNCHANGED <<file, input, useDraco, document2, texIdx,
                   optimizationLevel, outFile, tempFiles, response, snap>>
    /\ UNCHANGED <<dracoVars, fileVars, cleanupVars>>

\* lines 259-260: await document.transform(draco({quantizePosition: 12})).
DracoSimpleStart ==
    /\ pc = "draco2"
    /\ Begin("draco-simple", "document", 0)
    /\ pc' = "draco2_run"
    /\ UNCHANGED <<file, input, useDraco, document, document2, texIdx,
                   optimizationLevel, outFile, tempFiles, response, snap>>
    /\ UNCHANGED <<dracoVars, fileVars, cleanupVars>>

\* lines 260-263.
DracoSimpleOk ==
    /\ pc = "draco2_run"
    /\ Settle("draco-simple", "document", "ok", 0)
    /\ document' = Applied(document, "draco-simple")
    /\ optimizationLevel' = "draco-simple"
    /\ tempFiles' = tempFiles \cup {"Draco Simple"}
    /\ pc' = "write"
    /\ UNCHANGED <<file, input, useDraco, document2, texIdx, outFile,
                   response, snap>>
    /\ UNCHANGED <<dracoVars, fileVars, cleanupVars>>

\* lines 264-267: the throw is caught and logged.
DracoSimpleFail ==
    /\ pc = "draco2_run"
    /\ Settle("draco-simple", "document", "fail", 0)
    /\ document' \in Thrown(document, "draco-simple")
    /\ pc' = "write"
    /\ UNCHANGED <<file, input, useDraco, document2, texIdx,
                   optimizationLevel, outFile, tempFiles, response, snap>>
    /\ UNCHANGED <<dracoVars, fileVars, cleanupVars>>

----------------------------------------------------------------------------
\* The fallback on a second document: lines 277-295.

\* line 280: io.read(inputPath) returned a fresh document.
FallbackReadOk ==
    /\ pc = "fb_read"
    /\ document2' = Decode(input)
    /\ history' = Append(history, Event("io.read", "document2", "ok", 0))
    /\ pc' = "fb_dedup"
    /\ UNCHANGED <<file, input, useDraco, document, texIdx,
                   optimizationLevel, outFile, tempFiles, response, running,
                   snap>>
    /\ UNCHANGED <<dracoVars, fileVars, cleanupVars>>

\* lines 280 and 293-295: the throw is caught and logged; control falls
\* out of the catch block to line 298.
FallbackReadFail ==
    /\ pc = "fb_read"
    /\ history' = Append(history, Event("io.read", "document2", "fail", 0))
    /\ pc' = "write"
    /\ UNCHANGED <<file, input, useDraco, document, document2, texIdx,
                   optimizationLevel, outFile, tempFiles, response, running,
                   snap>>
    /\ UNCHANGED <<dracoVars, fileVars, cleanupVars>>

\* line 281: document2.transform(dedup(), prune()) runs dedup first.
FallbackDedupStart ==
    /\ pc = "fb_dedup"
    /\ Begin("dedup", "document2", 0)
    /\ pc' = "fb_dedup_run"
    /\ UNCHANGED <<file, input, useDraco, document, document2, texIdx,
                   optimizationLevel, outFile, tempFiles, response, snap>>
    /\ UNCHANGED <<dracoVars, fileVars, cleanupVars>>

FallbackDedupOk ==
    /\ pc = "fb_dedup_run"
    /\ Settle("dedup", "document2", "ok", 0)
    /\ document2' = Applied(document2, "dedup")
    /\ pc' = "fb_prune"
    /\ UNCHANGED <<file, input, useDraco, document, texIdx,
                   optimizationLevel, outFile, tempFiles, response, snap>>
    /\ UNCHANGED <<dracoVars, fileVars, cleanupVars>>

\* lines 281 and 293-295.
FallbackDedupFail ==
    /\ pc = "fb_dedup_run"
    /\ Settle("dedup", "document2", "fail", 0)
    /\ document2' \in Thrown(document2, "dedup")
    /\ pc' = "write"
    /\ UNCHANGED <<file, input, useDraco, document, texIdx,
                   optimizationLevel, outFile, tempFiles, response, snap>>
    /\ UNCHANGED <<dracoVars, fileVars, cleanupVars>>

\* line 281: then prune, within the same transform call.
FallbackPruneStart ==
    /\ pc = "fb_prune"
    /\ Begin("prune", "document2", 0)
    /\ pc' = "fb_prune_run"
    /\ UNCHANGED <<file, input, useDraco, document, document2, texIdx,
                   optimizationLevel, outFile, tempFiles, response, snap>>
    /\ UNCHANGED <<dracoVars, fileVars, cleanupVars>>

FallbackPruneOk ==
    /\ pc = "fb_prune_run"
    /\ Settle("prune", "document2", "ok", 0)
    /\ document2' = Applied(document2, "prune")
    /\ pc' = "fb_write"
    /\ UNCHANGED <<file, input, useDraco, document, texIdx,
                   optimizationLevel, outFile, tempFiles, response, snap>>
    /\ UNCHANGED <<dracoVars, fileVars, cleanupVars>>

\* lines 281 and 293-295.
FallbackPruneFail ==
    /\ pc = "fb_prune_run"
    /\ Settle("prune", "document2", "fail", 0)
    /\ document2' \in Thrown(document2, "prune")
    /\ pc' = "write"
    /\ UNCHANGED <<file, input, useDraco, document, texIdx,
                   optimizationLevel, outFile, tempFiles, response, snap>>
    /\ UNCHANGED <<dracoVars, fileVars, cleanupVars>>

\* FallbackWriteOk writing `document` where line 282 writes `document2`.
FallbackWriteOk_FirstDocument ==
    /\ pc = "fb_write"
    /\ outFile' = document
    /\ history' = Append(history, Event("io.write", "document2", "ok", 0))
    /\ optimizationLevel' = "minimal"
    /\ response' = MinimalResponse("minimal")
    /\ pc' = "done"
    /\ UNCHANGED <<file, input, useDraco, document, document2, texIdx,
                   tempFiles, running, snap>>
    /\ UNCHANGED <<dracoVars, fileVars, cleanupVars>>

\* lines 282-292: document2 is written and the handler returns.
FallbackWriteOk ==
    /\ pc = "fb_write"
    /\ outFile' = document2
    /\ history' = Append(history, Event("io.write", "document2", "ok", 0))
    /\ optimizationLevel' = "minimal"
    /\ response' = MinimalResponse("minimal")
    /\ pc' = "done"
    /\ UNCHANGED <<file, input, useDraco, document, document2, texIdx,
                   tempFiles, running, snap>>
    /\ UNCHANGED <<dracoVars, fileVars, cleanupVars>>

\* FallbackWriteFail with the catch of lines 293-295 rethrowing: the outer
\* catch of lines 351-364 answers 500.
FallbackWriteFail_Rethrown ==
    /\ pc = "fb_write"
    /\ history' = Append(history, Event("io.write", "document2", "fail", 0))
    /\ response' = ErrorResponse(500)
    /\ pc' = "done"
    /\ UNCHANGED <<file, input, useDraco, document, document2, texIdx,
                   optimizationLevel, outFile, tempFiles, running, snap>>
    /\ UNCHANGED <<dracoVars, fileVars, cleanupVars>>

\* lines 282 and 293-295.
FallbackWriteFail ==
    /\ pc = "fb_write"
    /\ history' = Append(history, Event("io.write", "document2", "fail", 0))
    /\ pc' = "write"
    /\ UNCHANGED <<file, input, useDraco, document, document2, texIdx,
                   optimizationLevel, outFile, tempFiles, response, running,
                   snap>>
    /\ UNCHANGED <<dracoVars, fileVars, cleanupVars>>

----------------------------------------------------------------------------
\* The final write and the report: lines 298-364.

\* lines 298-350.
WriteOk ==
    /\ pc = "write"
    /\ outFile' = document
    /\ history' = Append(history, Event("io.write", "document", "ok", 0))
    /\ response' = Report(optimizationLevel)
    /\ pc' = "done"
    /\ UNCHANGED <<file, input, useDraco, document, document2, texIdx,
                   optimizationLevel, tempFiles, running, snap>>
    /\ UNCHANGED <<dracoVars, fileVars, cleanupVars>>

\* lines 298-301 throwing (io.write, or stat after the write), 351-364.
WriteFail ==
    /\ pc = "write"
    /\ outFile' \in {outFile, document}
    /\ history' = Append(history, Event("io.write", "document", "fail", 0))
    /\ response' = ErrorResponse(500)
    /\ pc' = "done"
    /\ UNCHANGED <<file, input, useDraco, document, document2, texIdx,
                   optimizationLevel, tempFiles, running, snap>>
    /\ UNCHANGED <<dracoVars, fileVars, cleanupVars>>

Next ==
    \/ FormData \/ WriteInput \/ WriteInputFail \/ InitializeDraco
    \/ ReadOk \/ ReadFail
    \/ DedupStart \/ DedupOk \/ DedupFail
    \/ PruneStart \/ PruneOk \/ PruneFail
    \/ ResampleSkip \/ ResampleStart \/ ResampleOk \/ ResampleFail
    \/ TextureSkip \/ TextureEnter \/ CompressTextureStart
    \/ CompressTextureOk \/ CompressTextureFail \/ TextureDone
    \/ WeldStart \/ WeldOk \/ WeldFail
    \/ QuantizeStart \/ QuantizeOk \/ QuantizeFail
    \/ DracoSkip \/ DracoStart \/ DracoOk \/ DracoFail
    \/ DracoSimpleStart \/ DracoSimpleOk \/ DracoSimpleFail
    \/ FallbackReadOk \/ FallbackReadFail
    \/ FallbackDedupStart \/ FallbackDedupOk \/ FallbackDedupFail
    \/ FallbackPruneStart \/ FallbackPruneOk \/ FallbackPruneFail
    \/ FallbackWriteOk \/ FallbackWriteFail
    \/ WriteOk \/ WriteFail

Spec == Init /\ [][Next]_vars

----------------------------------------------------------------------------
\* Vocabulary of the properties.

Done == pc = "done"

\* Stages of the pipeline, as the report and the history name them.
Stages == {"dedup", "prune", "resample", "texture", "weld", "quantize",
           "draco", "draco-simple"}

\* Everything that is invoked on a document and settles.
Calls == Transforms \cup {"compressTexture"}

Happened(s, on, ev) ==
    \E i \in DOMAIN history :
        /\ history[i].stage = s
        /\ history[i].on = on
        /\ history[i].ev = ev

\* Stage number k was attempted on the document read at line 135.
Attempted(k) ==
    \E i \in DOMAIN history :
        /\ history[i].on = "document"
        /\ history[i].ev = "start"
        /\ history[i].stage \in Stages
        /\ StageOrder(history[i].stage) = k

\* The condition under which the source enters stage number k.
Precondition(k) ==
    CASE k = 3 -> input.anims > 0
      [] k = 4 -> input.textures > 0
      [] k = 6 -> useDraco
      [] OTHER -> TRUE

\* Every stage after a failed one, whose precondition holds, was attempted.
LaterStagesAttempted(failed) ==
    \A i \in DOMAIN history :
        (/\ history[i].on = "document"
         /\ history[i].ev = "fail"
         /\ history[i].stage \in failed)
        => \A k \in (StageOrder(history[i].stage) + 1)..6 :
               Precondition(k) => Attempted(k)

Completed(s) == Happened(s, "document", "ok") \/ Happened(s, "document2", "ok")

\* What each entry of the applied map would say if it followed the stages.
CompletedMap ==
    [dedup    |-> Completed("dedup"),
     prune    |-> Completed("prune"),
     resample |-> Completed("resample"),
     simplify |-> Completed("weld") \/ Completed("quantize"),
     draco    |-> Completed("draco") \/ Completed("draco-simple")]

\* C2: in every success response that carries the applied map, each entry
\* is true exactly when that stage completed successfully in the request.
C2_AppliedMatchesStages ==
    (response.status = 200 /\ "applied" \in response.fields)
        => response.applied = CompletedMap

\* C3: once the texture stage is over, a texture whose compression failed
\* has kept its bytes and every other texture had its compression attempted.
C3_OtherTexturesAttempted ==
    (pc \notin {"tex_loop", "tex_run"}) =>
        \A i \in DOMAIN history :
            (history[i].stage = "compressTexture" /\ history[i].ev = "fail")
            => /\ document.tex[history[i].idx] = "orig"
               /\ \A j \in DOMAIN document.tex :
                      \E k \in DOMAIN history :
                          /\ history[k].stage = "compressTexture"
                          /\ history[k].ev = "start"
                          /\ history[k].idx = j

\* lines 143-261: the tag assigned when a stage completes.
TagOf(s) ==
    CASE s = "dedup" -> "basic"
      [] s = "prune" -> "intermediate"
      [] s = "resample" -> "advanced"
      [] s = "texture" -> "texture-compressed"
      [] s = "weld" -> "welded"
      [] s = "quantize" -> "pre-quantized"
      [] s = "draco" -> "draco"
      [] s = "draco-simple" -> "draco-simple"

\* The stages that completed successfully on a document.
OkStages(on) ==
    {s \in Stages : Happened(s, on, "ok")}

\* The tag of the highest completed stage, in pipeline order.
HighestTag(ok) ==
    IF ok = {} THEN "none"
    ELSE TagOf(CHOOSE s \in ok : \A t \in ok : StageOrder(t) <= StageOrder(s))

\* C4: whenever a response carrying the tag is built, the tag names the
\* highest stage that completed successfully in the request (the fallback's
\* "minimal" is taken to name prune on the re-read document).
C4_TagIsHighestStage ==
    (Done /\ "optimizationLevel" \in response.fields) =>
        \/ response.optimizationLevel = HighestTag(OkStages("document"))
        \/ /\ response.optimizationLevel = "minimal"
           /\ HighestTag(OkStages("document2")) = "intermediate"

Last(h) == h[Len(h)]

\* A pass, a texture or a fallback step threw during the request.
SomeStageFailed ==
    \E i \in DOMAIN history :
        history[i].ev = "fail" /\ history[i].stage \in Stages \cup Calls

\* C5: an error response comes only from a missing file (400), from a
\* failure before the pipeline exists (staging the upload), from io.read of
\* the upload throwing, or from the final io.write throwing; a request
\* whose upload was decoded and whose final write did not throw succeeds,
\* whichever stages, textures or fallback steps failed.
C5_StageFailureNeverFatal ==
    /\ response.status \notin {0, 200} =>
           \/ response.status = 400 /\ ~file
           \/ response.status = 500 /\ history = <<>>
           \/ /\ response.status = 500
              /\ Last(history) \in
                     {Event("io.read", "document", "fail", 0),
                      Event("io.write", "document", "fail", 0)}
    /\ (Done /\ document.loaded
             /\ ~Happened("io.write", "document", "fail"))
           => response.status = 200

\* C5 witness: a stage, a texture and the fallback's write all failed and
\* the request was answered 200.
C5_Witness ==
    /\ Done
    /\ response.status = 200
    /\ Happened("prune", "document", "fail")
    /\ Happened("io.write", "document2", "fail")

\* C6: when io.read of the upload throws, nothing was or is ever invoked on
\* a document, the handler is over and its response is the 500 error.
C6_DecodeFailureRunsNothing ==
    Happened("io.read", "document", "fail") =>
        /\ \A i \in DOMAIN history : history[i].stage = "io.read"
        /\ running = {}
        /\ ~document.loaded /\ ~document2.loaded
        /\ Done
        /\ response.status = 500

\* C6 witness: the upload could not be decoded.
C6_Witness ==
    Done /\ file /\ Happened("io.read", "document", "fail")

\* The stage that was entered last has just failed as a whole (weld is
\* followed by quantization and draco by its retry, so the stage has failed
\* when the second attempt has).
StageJustFailed ==
    /\ history # <<>>
    /\ Last(history).on = "document"
    /\ Last(history).ev = "fail"
    /\ Last(history).stage \in {"dedup", "prune", "resample", "texture",
                                "quantize", "draco-simple"}

\* The edits of a document that the handler's own code makes certain: the
\* transforms that returned and the payload of each texture. What a throwing
\* library transform may have left behind is not compared.
Edits(doc) == [tex |-> doc.tex, applied |-> doc.applied]

\* C7: when a stage has failed, the document the pipeline continues with
\* holds the same edits as when that stage began.
C7_FailedStageLeavesNoEdits ==
    StageJustFailed => Edits(document) = Edits(snap)

\* C8: every success response carries the tag, the file sizes and the
\* applied map.
C8_SuccessCarriesReport ==
    response.status = 200 =>
        {"optimizationLevel", "fileSize", "applied"} \subseteq response.fields

\* The events of the history that concern one document's stages and calls.
IsStageEvent(e, on) ==
    e.on = on /\ e.stage \in Stages \cup Calls

C10_EmptyStagesSkipped ==
    (document.loaded /\ input.anims = 0 /\ input.textures = 0) =>
        /\ \A i \in DOMAIN history :
               history[i].stage \notin {"resample", "texture",
                                        "compressTexture"}
        /\ pc \notin {"resample_run", "tex_loop", "tex_run"}
        /\ Done => Happened("dedup", "document", "start")
        /\ (Done /\ Happened("dedup", "document", "ok"))
               => Happened("prune", "document", "start")
        /\ (Done /\ \A i \in DOMAIN history : history[i].ev # "fail")
               => /\ response.status = 200
                  /\ {"dedup", "prune"} \subseteq outFile.applied

\* C10 witness: such an upload went through dedup, prune and Draco and was
\* answered 200.
C10_Witness ==
    /\ Done
    /\ document.loaded /\ input.anims = 0 /\ input.textures = 0
    /\ Happened("prune", "document", "ok")
    /\ Happened("draco", "document", "ok")
    /\ response.status = 200

----------------------------------------------------------------------------
\* The two fallback chains, the Draco capability and what is reported.

\* How many times transform s was invoked on the document.
Attempts(s) ==
    Cardinality({i \in DOMAIN history :
                     /\ history[i].stage = s
                     /\ history[i].on = "document"
                     /\ history[i].ev = "start"})

\* The event just before the i-th one is e.
Preceded(i, e) == i > 1 /\ history[i - 1] = e

\* C11: Draco is attempted at most once and its retry at most once; the
\* retry (draco with quantizePosition 12 only) starts right after the first
\* attempt threw and never otherwise; once the first attempt has thrown the
\* retry is made; and when both have thrown, neither is among the document's
\* applied transforms, the handler goes on to the final write, and the
\* request is answered 200 unless that write throws.
C11_DracoRetriedOnce ==
    /\ Attempts("draco") <= 1
    /\ Attempts("draco-simple") <= 1
    /\ \A i \in DOMAIN history :
           (history[i].stage = "draco-simple" /\ history[i].ev = "start")
               => Preceded(i, Event("draco", "document", "fail", 0))
    /\ (Happened("draco", "document", "fail") /\ pc # "draco2")
           => Attempts("draco-simple") = 1
    /\ Happened("draco", "document", "ok") => Attempts("draco-simple") = 0
    /\ Happened("draco-simple", "document", "fail") =>
           /\ document.applied \cap {"draco", "draco-simple"} = {}
           /\ pc \in {"write", "done"}
           /\ Done => \/ response.status = 200
                      \/ Happened("io.write", "document", "fail")

\* C11 witness: both Draco attempts threw and the request was answered 200.
C11_Witness ==
    /\ Done
    /\ Happened("draco", "document", "fail")
    /\ Happened("draco-simple", "document", "fail")
    /\ response.status = 200
    /\ outFile = document

\* C12: quantization is attempted at most once, right after weld threw and
\* never otherwise; once weld has thrown quantization is attempted; and when
\* both have thrown, neither is among the document's applied transforms and
\* the handler is at the geometry compression stage or beyond it.
C12_WeldQuantizeSkipChain ==
    /\ Attempts("weld") <= 1
    /\ Attempts("quantize") <= 1
    /\ \A i \in DOMAIN history :
           (history[i].stage = "quantize" /\ history[i].ev = "start")
               => Preceded(i, Event("weld", "document", "fail", 0))
    /\ (Happened("weld", "document", "fail") /\ pc # "quantize")
           => Attempts("quantize") = 1
    /\ Happened("weld", "document", "ok") => Attempts("quantize") = 0
    /\ Happened("quantize", "document", "fail") =>
           /\ document.applied \cap {"weld", "quantize"} = {}
           /\ pc \in {"draco", "draco_run", "draco2", "draco2_run", "write",
                      "done"}
           /\ (Done /\ useDraco) => Attempts("draco") = 1

\* C12 witness: weld and quantization both threw and Draco then ran.
C12_Witness ==
    /\ Done
    /\ Happened("weld", "document", "fail")
    /\ Happened("quantize", "document", "fail")
    /\ Happened("draco", "document", "ok")

\* The transforms built by draco(...) of @gltf-transform/functions: lines
\* 210, 242 and 260.
DracoTransforms == {"quantize", "draco", "draco-simple"}

\* C14: in a request whose Draco modules are missing, no transform built by
\* draco(...) is ever invoked.
C14_NoDracoWithoutModules ==
    (pc \notin {"formData", "writeInput", "initDraco"} /\ ~useDraco) =>
        \A i \in DOMAIN history : history[i].stage \notin DracoTransforms

\* C15: a 200 response never reports the tag "error" or "none", and when
\* dedup or prune threw on the document, what the output file holds is the
\* re-read document with dedup and prune applied.
C15_SuccessNeverReportsError ==
    response.status = 200 =>
        /\ response.optimizationLevel \notin {"error", "none"}
        /\ (Happened("dedup", "document", "fail")
                \/ Happened("prune", "document", "fail"))
               => /\ outFile = document2
                  /\ Edits(outFile) = [tex |-> Decode(input).tex,
                                       applied |-> {"dedup", "prune"}]

\* The tags that stand for a request in which dedup and prune completed.
PrunedTags == {"intermediate", "advanced", "texture-compressed", "welded",
               "pre-quantized", "draco", "draco-simple", "minimal"}

\* C16: when a response reports one of the tags from "intermediate" on, or
\* "minimal", the output file holds the document of that tag (the re-read
\* one for "minimal"), dedup and prune both returned on that document, and
\* neither threw on it.
C16_ReportedTagImpliesPruned ==
    ("optimizationLevel" \in response.fields
         /\ response.optimizationLevel \in PrunedTags) =>
        LET on == IF response.optimizationLevel = "minimal"
                  THEN "document2" ELSE "document"
            doc == IF on = "document2" THEN document2 ELSE document
        IN  /\ outFile = doc
            /\ {"dedup", "prune"} \subseteq outFile.applied
            /\ outFile.partial \cap {"dedup", "prune"} = {}
            /\ Happened("dedup", on, "ok") /\ Happened("prune", on, "ok")
            /\ ~Happened("dedup", on, "fail") /\ ~Happened("prune", on, "fail")

\* C16 witness: a "minimal" response after prune threw on the first
\* document.
C16_Witness ==
    /\ Done
    /\ response.optimizationLevel = "minimal"
    /\ Happened("prune", "document", "fail")
    /\ document.partial = {"prune"}

\* C17: in every success response dracoEnabled is true exactly when some
\* transform built by draco(...) is among the applied transforms of the
\* document the output file holds.
C17_DracoEnabledMatchesOutput ==
    response.status = 200 =>
        (response.dracoEnabled <=> outFile.applied \cap DracoTransforms # {})

----------------------------------------------------------------------------
\* Concurrent requests and the module-level Draco state: lines 34-62 and
\* the variables each request declares.  A handler runs without interruption
\* between two awaits; other handlers run while it awaits.

\* lines 35-37: the variables declared at module level.
ModuleScope == {"decoderModule", "encoderModule", "dracoInitialized"}

\* Scope with `let optimizationLevel` of line 138 moved to module level.
Scope_LevelAtModule(name) ==
    IF name \in ModuleScope \cup {"optimizationLevel"}
    THEN "module" ELSE "request"

\* Where a variable is declared: at module level (one per process) or
\* inside POST (one per call).
Scope(name) == IF name \in ModuleScope THEN "module" ELSE "request"

\* The storage a request's use of a name refers to.
Cell(name, r) == IF Scope(name) = "module" THEN <<name, 0>> ELSE <<name, r>>

Reads(names, r) ==
    {[cell |-> Cell(n, r), by |-> r, mode |-> "read"] : n \in names}

Writes(names, r) ==
    {[cell |-> Cell(n, r), by |-> r, mode |-> "write"] : n \in names}

\* lines 66-86: the upload is taken and staged.
Intake(r) ==
    /\ hpc[r] = "start"
    /\ hpc' = [hpc EXCEPT ![r] = "initDraco"]
    /\ accesses' = accesses
           \cup Writes({"fileId", "inputPath", "outputPath",
                        "originalSize"}, r)
           \cup Reads({"fileId", "inputPath"}, r)
    /\ UNCHANGED <<decoderModule, encoderModule, dracoInitialized,
                   initResult, lateWrites>>
    /\ UNCHANGED <<requestVars, fileVars, cleanupVars>>

\* lines 40-43: the flag is tested; either the cached modules are returned
\* or createDecoderModule is called and awaited.
InitCheck(r) ==
    /\ hpc[r] = "initDraco"
    /\ IF dracoInitialized
       THEN /\ initResult' = [initResult EXCEPT
                                  ![r] = [decoder |-> decoderModule,
                                          encoder |-> encoderModule]]
            /\ accesses' = accesses
                   \cup Reads({"dracoInitialized", "decoderModule",
                               "encoderModule"}, r)
            /\ hpc' = [hpc EXCEPT ![r] = "io"]
       ELSE /\ accesses' = accesses \cup Reads({"dracoInitialized"}, r)
            /\ hpc' = [hpc EXCEPT ![r] = "awaitDecoder"]
            /\ UNCHANGED initResult
    /\ UNCHANGED <<decoderModule, encoderModule, dracoInitialized,
                   lateWrites>>
    /\ UNCHANGED <<requestVars, fileVars, cleanupVars>>

\* lines 43-49: the decoder promise resolved; its module is stored and
\* createEncoderModule is called and awaited.
DecoderResolved(r) ==
    /\ hpc[r] = "awaitDecoder"
    /\ decoderModule' = r
    /\ lateWrites' = IF dracoInitialized
                     THEN lateWrites \cup {<<"decoderModule", r>>}
                     ELSE lateWrites
    /\ accesses' = accesses \cup Writes({"decoderModule"}, r)
    /\ hpc' = [hpc EXCEPT ![r] = "awaitEncoder"]
    /\ UNCHANGED <<encoderModule, dracoInitialized, initResult>>
    /\ UNCHANGED <<requestVars, fileVars, cleanupVars>>

\* lines 43 and 58-61: the decoder promise rejected; two nulls are returned.
DecoderRejected(r) ==
    /\ hpc[r] = "awaitDecoder"
    /\ initResult' = [initResult EXCEPT ![r] = [decoder |-> 0, encoder |-> 0]]
    /\ hpc' = [hpc EXCEPT ![r] = "io"]
    /\ UNCHANGED <<decoderModule, encoderModule, dracoInitialized, accesses,
                   lateWrites>>
    /\ UNCHANGED <<requestVars, fileVars, cleanupVars>>

\* lines 49-57: the encoder promise resolved; its module is stored, the
\* flag is set and the two module-level variables are returned.
EncoderResolved(r) ==
    /\ hpc[r] = "awaitEncoder"
    /\ encoderModule' = r
    /\ dracoInitialized' = TRUE
    /\ lateWrites' = IF dracoInitialized
                     THEN lateWrites \cup {<<"encoderModule", r>>}
                     ELSE lateWrites
    /\ initResult' = [initResult EXCEPT
                          ![r] = [decoder |-> decoderModule, encoder |-> r]]
    /\ accesses' = accesses
           \cup Writes({"encoderModule", "dracoInitialized"}, r)
           \cup Reads({"decoderModule", "encoderModule"}, r)
    /\ hpc' = [hpc EXCEPT ![r] = "io"]
    /\ UNCHANGED decoderModule
    /\ UNCHANGED <<requestVars, fileVars, cleanupVars>>

\* lines 49 and 58-61: the encoder promise rejected; two nulls are returned
\* (the decoder stored at line 43 stays).
EncoderRejected(r) ==
    /\ hpc[r] = "awaitEncoder"
    /\ initResult' = [initResult EXCEPT ![r] = [decoder |-> 0, encoder |-> 0]]
    /\ hpc' = [hpc EXCEPT ![r] = "io"]
    /\ UNCHANGED <<decoderModule, encoderModule, dracoInitialized, accesses,
                   lateWrites>>
    /\ UNCHANGED <<requestVars, fileVars, cleanupVars>>

\* lines 113-135: the result is destructured, NodeIO built and the upload
\* decoded.
CreateIO(r) ==
    /\ hpc[r] = "io"
    /\ hpc' = [hpc EXCEPT ![r] = "pipeline"]
    /\ accesses' = accesses
           \cup Writes({"decoder", "encoder", "useDraco", "io",
                        "document"}, r)
           \cup Reads({"decoder", "encoder", "useDraco", "io",
                       "inputPath"}, r)
    /\ UNCHANGED <<decoderModule, encoderModule, dracoInitialized,
                   initResult, lateWrites>>
    /\ UNCHANGED <<requestVars, fileVars, cleanupVars>>

\* lines 138-296: the pipeline (and checkFileSize) on the request's
\* document.
Pipeline(r) ==
    /\ hpc[r] = "pipeline"
    /\ hpc' = [hpc EXCEPT ![r] = "respond"]
    /\ accesses' = accesses
           \cup Writes({"optimizationLevel"}, r)
           \cup Reads({"document", "useDraco", "io", "originalSize",
                       "fileId"}, r)
    /\ UNCHANGED <<decoderModule, encoderModule, dracoInitialized,
                   initResult, lateWrites>>
    /\ UNCHANGED <<requestVars, fileVars, cleanupVars>>

\* lines 298-350: the final write and the report.
Respond(r) ==
    /\ hpc[r] = "respond"
    /\ hpc' = [hpc EXCEPT ![r] = "done"]
    /\ accesses' = accesses
           \cup Writes({"finalSize", "totalReduction"}, r)
           \cup Reads({"io", "document", "outputPath", "optimizationLevel",
                       "originalSize", "fileId", "finalSize",
                       "totalReduction"}, r)
    /\ UNCHANGED <<decoderModule, encoderModule, dracoInitialized,
                   initResult, lateWrites>>
    /\ UNCHANGED <<requestVars, fileVars, cleanupVars>>

NextDraco ==
    \E r \in Requests :
        \/ Intake(r) \/ InitCheck(r)
        \/ DecoderResolved(r) \/ DecoderRejected(r)
        \/ EncoderResolved(r) \/ EncoderRejected(r)
        \/ CreateIO(r) \/ Pipeline(r) \/ Respond(r)

SpecDraco == Init /\ [][NextDraco]_vars

\* initializeDraco has returned to request r.
Returned(r) == hpc[r] \in {"io", "pipeline", "respond", "done"}

\* C18: the two modules are never assigned while dracoInitialized is true,
\* and the decoder and the encoder a call returns were created by the same
\* call (or are both null).
C18_InitialisedOnce ==
    /\ lateWrites = {}
    /\ \A r \in Requests :
           Returned(r) => initResult[r].decoder = initResult[r].encoder

\* Two accesses of one variable by different requests, one of them a write.
Shared(a, b) ==
    /\ a.cell = b.cell
    /\ a.by # b.by
    /\ a.mode = "write"

----------------------------------------------------------------------------
\* The files of concurrent requests in os.tmpdir(): route.ts lines 76-96,
\* 135, 280-301, and the download route (page.tsx lines 329-360).
\* A path is the sequence of its segments; a segment is a text s preceded by
\* the ids `pre` joined to it with "-" (so "<id>-optimized.glb" has
\* pre = <<id>> and s = "optimized.glb").

Seg(pre, s) == [pre |-> pre, s |-> s]

\* os.tmpdir()
TempDir == <<Seg(<<>>, "tmp")>>

\* uuidv4(): the values it can return.
Ids == 1..NumRequests

\* path.join's normalisation: a ".." segment removes the segment before it.
RECURSIVE Normalize(_, _)
Normalize(segs, acc) ==
    IF segs = <<>> THEN acc
    ELSE IF Head(segs) = Seg(<<>>, "..")
         THEN Normalize(Tail(segs),
                        IF acc = <<>> THEN acc
                        ELSE SubSeq(acc, 1, Len(acc) - 1))
         ELSE Normalize(Tail(segs), Append(acc, Head(segs)))

\* path.join(tempDir, name)
Join(name) == Normalize(TempDir \o name, <<>>)

\* The template `${fileId}-${name}`: the id is joined to the first segment.
WithId(id, name) ==
    <<Seg(<<id>> \o Head(name).pre, Head(name).s)>> \o Tail(name)

\* line 79
InputPath(r) == Join(WithId(fileId[r], fileName[r]))

\* line 80, and page.tsx line 338 for the fileId of the query
OutputPathOf(id) == Join(WithId(id, <<Seg(<<>>, "optimized.glb")>>))

OutputPath(r) == OutputPathOf(fileId[r])

\* The stages whose size is measured on every run that reaches the final
\* write: lines 145 and 151.
CheckStages == <<"Dedup", "Prune">>

\* line 93
TempPath(r, stage) ==
    Join(WithId(fileId[r], <<Seg(<<>>, "temp-" \o stage \o ".glb")>>))

\* The name a client can give its upload (file.name, taken from the
\* multipart header as sent): none, a plain name, the name of the output,
\* a name inside a directory, or a name that climbs back to the output of
\* a request whose id the client has been told.
UploadNames ==
    {<<>>,
     <<Seg(<<>>, "optimized.glb")>>,
     <<Seg(<<>>, "x"), Seg(<<>>, "model.glb")>>}
    \cup {<<Seg(<<>>, "x"), Seg(<<>>, ".."), Seg(<<i>>, "optimized.glb")>> :
              i \in disclosed}

\* A file can be created where its directory exists: directly in tempDir.
InTempDir(p) == Len(p) = Len(TempDir) + 1 /\ SubSeq(p, 1, Len(TempDir)) = TempDir

Exists(p) == \E f \in files : f.path = p

FileAt(p) == CHOOSE f \in files : f.path = p

\* writeFile / io.write: the file at p now holds what r wrote.
Put(p, r, what) ==
    {f \in files : f.path # p}
    \cup {[path |-> p, by |-> r, what |-> what,
           writers |-> {r} \cup (IF Exists(p) THEN FileAt(p).writers ELSE {})]}

\* stat / io.read of p by r.
Get(p, r) == [by |-> r, path |-> p, writer |-> FileAt(p).by]

\* lines 76-80: the id is generated and the two paths are computed.
GenerateId(r) ==
    /\ fpc[r] = "start"
    /\ \E i \in Ids \ issued, n \in UploadNames :
           /\ fileId' = [fileId EXCEPT ![r] = i]
           /\ fileName' = [fileName EXCEPT
                               ![r] = IF n = <<>>
                                      THEN <<Seg(<<>>, "model.glb")>>
                                      ELSE n]
           /\ issued' = issued \cup {i}
    /\ fpc' = [fpc EXCEPT ![r] = "writeFile"]
    /\ UNCHANGED <<disclosed, files, fileReads, served, checks>>
    /\ UNCHANGED <<requestVars, dracoVars, cleanupVars>>

\* lines 82-86: the upload is written to inputPath and its size taken.
StageUpload(r) ==
    /\ fpc[r] = "writeFile"
    /\ InTempDir(InputPath(r))
    /\ files' = Put(InputPath(r), r, "upload")
    /\ fileReads' = fileReads
           \cup {[by |-> r, path |-> InputPath(r), writer |-> r]}
    /\ fpc' = [fpc EXCEPT ![r] = "read"]
    /\ UNCHANGED <<fileId, fileName, issued, disclosed, served, checks>>
    /\ UNCHANGED <<requestVars, dracoVars, cleanupVars>>

\* lines 82 and 351-364: writeFile rejects (no such directory); 500.
StageUploadFail(r) ==
    /\ fpc[r] = "writeFile"
    /\ ~InTempDir(InputPath(r))
    /\ fpc' = [fpc EXCEPT ![r] = "done"]
    /\ UNCHANGED <<fileId, fileName, issued, disclosed, files, fileReads,
                   served, checks>>
    /\ UNCHANGED <<requestVars, dracoVars, cleanupVars>>

\* line 135: io.read(inputPath).
ReadUpload(r) ==
    /\ fpc[r] = "read"
    /\ fileReads' = fileReads \cup {Get(InputPath(r), r)}
    /\ fpc' = [fpc EXCEPT ![r] = "pipeline"]
    /\ UNCHANGED <<fileId, fileName, issued, disclosed, files, served,
                   checks>>
    /\ UNCHANGED <<requestVars, dracoVars, cleanupVars>>

\* lines 90-96, called at lines 145 and 151: the document is written to
\* the stage's temporary path and its size taken.
CheckFileSize(r) ==
    /\ fpc[r] = "pipeline"
    /\ checks[r] < Len(CheckStages)
    /\ LET p == TempPath(r, CheckStages[checks[r] + 1])
       IN  /\ files' = Put(p, r, "temp")
           /\ fileReads' = fileReads \cup {[by |-> r, path |-> p, writer |-> r]}
    /\ checks' = [checks EXCEPT ![r] = @ + 1]
    /\ UNCHANGED <<fpc, fileId, fileName, issued, disclosed, served>>
    /\ UNCHANGED <<requestVars, dracoVars, cleanupVars>>

\* lines 273-280: a stage threw; the upload is read again.
FallbackRead(r) ==
    /\ fpc[r] = "pipeline"
    /\ fileReads' = fileReads \cup {Get(InputPath(r), r)}
    /\ fpc' = [fpc EXCEPT ![r] = "fallbackWrite"]
    /\ UNCHANGED <<fileId, fileName, issued, disclosed, files, served,
                   checks>>
    /\ UNCHANGED <<requestVars, dracoVars, cleanupVars>>

\* line 282: io.write(outputPath, document2).
FallbackWrite(r) ==
    /\ fpc[r] = "fallbackWrite"
    /\ files' = Put(OutputPath(r), r, "output")
    /\ fpc' = [fpc EXCEPT ![r] = "respond"]
    /\ UNCHANGED <<fileId, fileName, issued, disclosed, fileReads, served,
                   checks>>
    /\ UNCHANGED <<requestVars, dracoVars, cleanupVars>>

\* lines 298-301: io.write(outputPath, document) and stat(outputPath).
WriteOutput(r) ==
    /\ fpc[r] = "pipeline"
    /\ checks[r] = Len(CheckStages)
    /\ files' = Put(OutputPath(r), r, "output")
    /\ fileReads' = fileReads
           \cup {[by |-> r, path |-> OutputPath(r), writer |-> r]}
    /\ fpc' = [fpc EXCEPT ![r] = "respond"]
    /\ UNCHANGED <<fileId, fileName, issued, disclosed, served, checks>>
    /\ UNCHANGED <<requestVars, dracoVars, cleanupVars>>

\* lines 285-291 and 316-350: the response tells the client the id
\* (optimizedPath, optimizedModelUrl).
RespondFile(r) ==
    /\ fpc[r] = "respond"
    /\ disclosed' = disclosed \cup {fileId[r]}
    /\ fpc' = [fpc EXCEPT ![r] = "done"]
    /\ UNCHANGED <<fileId, fileName, issued, files, fileReads, served,
                   checks>>
    /\ UNCHANGED <<requestVars, dracoVars, cleanupVars>>

\* page.tsx lines 329-360: GET /api/download?fileId=x, for an id a response
\* has told the client.
Download(x) ==
    /\ x \in disclosed
    /\ LET p == OutputPathOf(x)
       IN  served' = served \cup
               {IF Exists(p)
                THEN [id |-> x, by |-> FileAt(p).by, what |-> FileAt(p).what]
                ELSE [id |-> x, by |-> 0, what |-> "404"]}
    /\ UNCHANGED <<fpc, fileId, fileName, issued, disclosed, files,
                   fileReads, checks>>
    /\ UNCHANGED <<requestVars, dracoVars, cleanupVars>>

NextFiles ==
    \/ \E r \in Requests :
           \/ GenerateId(r)
           \/ StageUpload(r) \/ StageUploadFail(r)
           \/ ReadUpload(r) \/ CheckFileSize(r)
           \/ FallbackRead(r) \/ FallbackWrite(r)
           \/ WriteOutput(r) \/ RespondFile(r)
    \/ \E x \in Ids : Download(x)

SpecFiles == Init /\ [][NextFiles]_vars

\* The paths request r has computed so far.
PathsOf(r) ==
    IF fpc[r] = "start" THEN {}
    ELSE {InputPath(r), OutputPath(r)}
         \cup {TempPath(r, CheckStages[k]) : k \in 1..Len(CheckStages)}

\* The request that generated id x.
Owner(x) == CHOOSE r \in Requests : fpc[r] # "start" /\ fileId[r] = x

\* C19: the paths of different requests are pairwise distinct, a download
\* of id x serves the output written by the request that generated x, and
\* no request reads or overwrites a file written by another.
C19_FilesOfRequestsDisjoint ==
    /\ \A r1, r2 \in Requests :
           r1 # r2 => PathsOf(r1) \cap PathsOf(r2) = {}
    /\ \A d \in served : d.by = Owner(d.id) /\ d.what = "output"
    /\ \A rd \in fileReads : rd.writer = rd.by
    /\ \A f \in files : f.writers = {f.by}

----------------------------------------------------------------------------
\* The single-transform handler: unnamed/part_001 lines 21-110.

\* lines 68-78: the functions of the one document.transform call, in order.
TransformFns == <<"resample", "prune", "dedup", "draco", "textureCompress">>

\* file.name of the upload.
ModelNames == {"model.glb", "scene.gltf"}

\* lines 96-97: an error was thrown inside the try; the catch is entered.
Caught ==
    /\ cpc' = "catch"
    /\ UNCHANGED cresponse

\* fs.unlink(tempFilePath) as one call at `at`, ending as `ok`.
Unlink(at, ok) ==
    /\ unlinks' = Append(unlinks, [path |-> tempFilePath, at |-> at,
                                   ok |-> ok])
    /\ onDisk' = IF ok THEN FALSE ELSE onDisk

\* lines 29-32: NodeIO is built with the two Draco modules.
NewIO ==
    /\ cpc = "createIO"
    /\ cpc' = "formData"
    /\ UNCHANGED <<now, uploadName, tempFilePath, written, onDisk, unlinks,
                   transformed, cresponse>>
    /\ UNCHANGED <<requestVars, dracoVars, fileVars>>

\* lines 29-32 and 96: a Draco module fails to load.
NewIOFail ==
    /\ cpc = "createIO"
    /\ Caught
    /\ UNCHANGED <<now, uploadName, tempFilePath, written, onDisk, unlinks,
                   transformed>>
    /\ UNCHANGED <<requestVars, dracoVars, fileVars>>

\* lines 34-46: the form holds a file under "model"; its bytes are read.
GetModel ==
    /\ cpc = "formData"
    /\ \E n \in ModelNames : uploadName' = n
    /\ cpc' = "tempPath"
    /\ UNCHANGED <<now, tempFilePath, written, onDisk, unlinks, transformed,
                   cresponse>>
    /\ UNCHANGED <<requestVars, dracoVars, fileVars>>

\* lines 37-42: no file under "model"; 400.
NoModel ==
    /\ cpc = "formData"
    /\ cpc' = "done"
    /\ cresponse' = 400
    /\ UNCHANGED <<now, uploadName, tempFilePath, written, onDisk, unlinks,
                   transformed>>
    /\ UNCHANGED <<requestVars, dracoVars, fileVars>>

\* lines 34 and 96: req.formData() rejects.
FormDataFail ==
    /\ cpc = "formData"
    /\ Caught
    /\ UNCHANGED <<now, uploadName, tempFilePath, written, onDisk, unlinks,
                   transformed>>
    /\ UNCHANGED <<requestVars, dracoVars, fileVars>>

\* lines 49-51: tempFilePath is assigned from the clock and the name.
AssignTempPath ==
    /\ cpc = "tempPath"
    /\ \E t \in 1..MaxNow :
           /\ now' = t
           /\ tempFilePath' = <<t, uploadName>>
    /\ cpc' = "writeFile"
    /\ UNCHANGED <<uploadName, written, onDisk, unlinks, transformed,
                   cresponse>>
    /\ UNCHANGED <<requestVars, dracoVars, fileVars>>

\* line 55: the upload is written to tempFilePath.
WriteTemp ==
    /\ cpc = "writeFile"
    /\ written' = TRUE
    /\ onDisk' = TRUE
    /\ cpc' = "read"
    /\ UNCHANGED <<now, uploadName, tempFilePath, unlinks, transformed,
                   cresponse>>
    /\ UNCHANGED <<requestVars, dracoVars, fileVars>>

\* lines 55 and 96: fs.writeFile rejects; the file may have been created.
WriteTempFail ==
    /\ cpc = "writeFile"
    /\ \E b \in BOOLEAN : onDisk' = b
    /\ Caught
    /\ UNCHANGED <<now, uploadName, tempFilePath, written, unlinks,
                   transformed>>
    /\ UNCHANGED <<requestVars, dracoVars, fileVars>>

\* lines 58-65: io.read returns a document.
Load ==
    /\ cpc = "read"
    /\ cpc' = "transform"
    /\ UNCHANGED <<now, uploadName, tempFilePath, written, onDisk, unlinks,
                   transformed, cresponse>>
    /\ UNCHANGED <<requestVars, dracoVars, fileVars>>

\* lines 58-65 and 96: io.read rejects, or returns nothing and line 62
\* throws.
LoadFail ==
    /\ cpc = "read"
    /\ Caught
    /\ UNCHANGED <<now, uploadName, tempFilePath, written, onDisk, unlinks,
                   transformed>>
    /\ UNCHANGED <<requestVars, dracoVars, fileVars>>

\* lines 68-78: the next function of the transform call returns.
TransformStep ==
    /\ cpc = "transform"
    /\ transformed' = Append(transformed,
                             TransformFns[Len(transformed) + 1])
    /\ cpc' = IF Len(transformed') = Len(TransformFns)
              THEN "writeBinary" ELSE "transform"
    /\ UNCHANGED <<now, uploadName, tempFilePath, written, onDisk, unlinks,
                   cresponse>>
    /\ UNCHANGED <<requestVars, dracoVars, fileVars>>

\* lines 68-78 and 96: the next function of the transform call throws.
TransformThrow ==
    /\ cpc = "transform"
    /\ Caught
    /\ UNCHANGED <<now, uploadName, tempFilePath, written, onDisk, unlinks,
                   transformed>>
    /\ UNCHANGED <<requestVars, dracoVars, fileVars>>

\* line 81: io.writeBinary returns the buffer.
WriteBinary ==
    /\ cpc = "writeBinary"
    /\ cpc' = "unlink"
    /\ UNCHANGED <<now, uploadName, tempFilePath, written, onDisk, unlinks,
                   transformed, cresponse>>
    /\ UNCHANGED <<requestVars, dracoVars, fileVars>>

\* lines 81 and 96: io.writeBinary rejects.
WriteBinaryFail ==
    /\ cpc = "writeBinary"
    /\ Caught
    /\ UNCHANGED <<now, uploadName, tempFilePath, written, onDisk, unlinks,
                   transformed>>
    /\ UNCHANGED <<requestVars, dracoVars, fileVars>>

\* lines 84-95: the temporary file is deleted and the buffer returned.
UnlinkOk ==
    /\ cpc = "unlink"
    /\ tempFilePath # <<>>
    /\ Unlink("success", TRUE)
    /\ cpc' = "done"
    /\ cresponse' = 200
    /\ UNCHANGED <<now, uploadName, tempFilePath, written, transformed>>
    /\ UNCHANGED <<requestVars, dracoVars, fileVars>>

\* lines 84-86 and 96: fs.unlink rejects outside any inner try.
UnlinkFail ==
    /\ cpc = "unlink"
    /\ tempFilePath # <<>>
    /\ Unlink("success", FALSE)
    /\ Caught
    /\ UNCHANGED <<now, uploadName, tempFilePath, written, transformed>>
    /\ UNCHANGED <<requestVars, dracoVars, fileVars>>

\* lines 99 and 106-109: tempFilePath is still undefined; 500.
CatchNoPath ==
    /\ cpc = "catch"
    /\ tempFilePath = <<>>
    /\ cpc' = "done"
    /\ cresponse' = 500
    /\ UNCHANGED <<now, uploadName, tempFilePath, written, onDisk, unlinks,
                   transformed>>
    /\ UNCHANGED <<requestVars, dracoVars, fileVars>>

\* The catch without lines 99-105: 500 with no deletion.
CleanupOk_NoUnlink ==
    /\ cpc = "catch"
    /\ tempFilePath # <<>>
    /\ cpc' = "done"
    /\ cresponse' = 500
    /\ UNCHANGED <<now, uploadName, tempFilePath, written, onDisk, unlinks,
                   transformed>>
    /\ UNCHANGED <<requestVars, dracoVars, fileVars>>

\* lines 99-109: the catch deletes the temporary file; 500.
CleanupOk ==
    /\ cpc = "catch"
    /\ tempFilePath # <<>>
    /\ onDisk
    /\ Unlink("catch", TRUE)
    /\ cpc' = "done"
    /\ cresponse' = 500
    /\ UNCHANGED <<now, uploadName, tempFilePath, written, transformed>>
    /\ UNCHANGED <<requestVars, dracoVars, fileVars>>

\* lines 99-109: fs.unlink rejects in the catch (no such file, or the file
\* cannot be removed); the inner catch logs it; 500.
CleanupFail ==
    /\ cpc = "catch"
    /\ tempFilePath # <<>>
    /\ Unlink("catch", FALSE)
    /\ cpc' = "done"
    /\ cresponse' = 500
    /\ UNCHANGED <<now, uploadName, tempFilePath, written, transformed>>
    /\ UNCHANGED <<requestVars, dracoVars, fileVars>>

NextCleanup ==
    \/ NewIO \/ NewIOFail
    \/ GetModel \/ NoModel \/ FormDataFail
    \/ AssignTempPath
    \/ WriteTemp \/ WriteTempFail
    \/ Load \/ LoadFail
    \/ TransformStep \/ TransformThrow
    \/ WriteBinary \/ WriteBinaryFail
    \/ UnlinkOk \/ UnlinkFail
    \/ CatchNoPath \/ CleanupOk \/ CleanupFail

SpecCleanup == Init /\ [][NextCleanup]_vars

\* C20: when the handler returns after the temporary file was written, it
\* has called fs.unlink on that file, and if an unlink was made in the catch
\* (whatever its outcome) the response is the 500.
C20_TempFileCleanupAttempted ==
    (cresponse # 0 /\ written) =>
        /\ \E i \in DOMAIN unlinks : unlinks[i].path = tempFilePath
        /\ \A i \in DOMAIN unlinks :
               unlinks[i].at = "catch" => cresponse = 500

\* C20 witness: the file was written, a transform threw, the deletion in the
\* catch failed and the handler answered 500.
C20_Witness ==
    /\ written
    /\ Len(transformed) < Len(TransformFns)
    /\ unlinks = <<[path |-> tempFilePath, at |-> "catch", ok |-> FALSE]>>
    /\ cresponse = 500

----------------------------------------------------------------------------
\* C21: the step that finds no file in the form data ends the request with
\* the 400 response and changes nothing else (no temporary file, no Draco
\* initialisation, no document, no stage), and nothing of the request
\* changes after it has ended.
C21_NoFileAnswers400 ==
    [][/\ (pc = "formData" /\ pc' # "formData" /\ ~file') =>
              /\ pc' = "done"
              /\ response' = ErrorResponse(400)
              /\ UNCHANGED <<input, useDraco, document, document2, texIdx,
                             optimizationLevel, outFile, tempFiles, running,
                             snap, history>>
              /\ UNCHANGED <<dracoVars, fileVars>>
       /\ pc = "done" => UNCHANGED requestVars]_vars

\* C21 witness: a request without a file has ended, answered 400.
C21_Witness ==
    /\ pc = "done"
    /\ ~file
    /\ response.status = 400
    /\ history = <<>>

====
